---- MODULE Spec2Model ----
(***************************************************************************)
(* gettercheck: the result type (gettercheck/errcheck.go) and the          *)
(* concurrent package checker (cmd: checkPaths).                           *)
(*                                                                         *)
(* Go strings are modelled as tuples of byte values, compared bytewise     *)
(* (lexicographically, a proper prefix first) as Go's < on strings does.   *)
(* A token.Position is modelled by its Filename, Line and Column; its      *)
(* Offset is determined by these three within one file set and is left out.*)
(***************************************************************************)
EXTENDS Integers, Sequences, FiniteSets, TLC

VARIABLES
    upc,        \* harness of Result: which call has been made
    recv,       \* the receiver's r.UnusedGetterError
    other,      \* the argument's other.UnusedGetterError (Append)
    recv0,      \* the receiver's records before the call (history)
    other0,     \* the argument's records before the call (history)
    uniq1,      \* what recv.Unique() returned
    uniq2       \* what recv.Unique().Unique() returned

VARIABLES
    loadErr,    \* whether c.LoadPackages returns an error
    pkgs,       \* the packages c.LoadPackages returns
    write,      \* c.WriteGetters
    mpc,        \* checkPaths: where the calling goroutine is
    fi,         \* checkPaths: the index of the fill loop (for _, pkg := range pkgs)
    si,         \* checkPaths: the goroutines started so far
    work,       \* the channel's buffer (indices into pkgs)
    closed,     \* whether the channel is closed
    wg,         \* the WaitGroup's counter
    mu,         \* the mutex: 0, or the worker that holds it
    result,     \* result.UnusedGetterError, shared by the workers
    ret,        \* what checkPaths returned
    wpc,        \* each worker: where it is
    wpkg,       \* each worker: the package it took (index into pkgs)
    wfile,      \* each worker: CheckPackage's index into pkg.Syntax
    verrors,    \* each worker: v.errors of its CheckPackage call
    takes,      \* history: how often each package was received from the channel
    checked,    \* history: how often CheckPackage returned for each package
    pkgres,     \* history: what CheckPackage returned for each package
    written,    \* how often each source file was written (its text on disk is the
                \* rewritten one from the first write on)
    flagErr,    \* whether flags.Parse fails on the arguments
    noGoFiles,  \* whether the error c.LoadPackages returns is ErrNoGoFiles
    cpc,        \* mainCmd: where it is
    exit        \* what mainCmd returned (-1 until it returns)

VARIABLES
    tpc,        \* CheckPackage on one file: where it is
    stmt,       \* the statement of the file's body (the syntax tree)
    names,      \* the Sel.Name of the selectors the visitor has renamed, by node
    terrors,    \* v.errors of the visitor CheckPackage created
    comments,   \* the Text of the comments of the file (astFile.Comments), in order
    generated,  \* c.Exclusions.GeneratedFiles
    disk,       \* the lines readfile finds in the file (none when it cannot open it)
    line        \* the line of the statement in the parsed file (pos.Line)

uvars == <<upc, recv, other, recv0, other0, uniq1, uniq2>>
cvars == <<loadErr, pkgs, write, mpc, fi, si, work, closed, wg, mu, result, ret,
           wpc, wpkg, wfile, verrors, takes, checked, pkgres, written,
           flagErr, noGoFiles, cpc, exit>>
tvars == <<tpc, stmt, names, terrors, comments, generated, disk, line>>
vars == <<uvars, cvars, tvars>>

(***************************************************************************)
(* Bounds and sample values.                                               *)
(***************************************************************************)
MaxLen == 3
MaxPkgs == 3
MaxWritePkgs == 2       \* the packages of a run that rewrites
NumCPU == 2

Filenames == {<<1>>, <<1, 2>>}
LineNumbers == {1, 2}
Columns == {1, 2}
SourceLines == {<<1>>, <<2>>}

\* token.Position
Position == [Filename : Filenames, Line : LineNumbers, Column : Columns]

\* two accessors: their declaration sites and the names recorded for them
GetA == [GetterPos |-> [Filename |-> <<3>>, Line |-> 1, Column |-> 1], FuncName |-> <<7, 1>>]
GetB == [GetterPos |-> [Filename |-> <<3>>, Line |-> 2, Column |-> 1], FuncName |-> <<7, 2>>]

\* type UnusedGetterError struct { Pos, GetterPos token.Position; Line, FuncName string }
\* The sample records: GetA at every position with every source-line text,
\* and GetB at the positions of line 1 of file <<1>>.
UnusedGetterError ==
    { [Pos |-> p, GetterPos |-> a.GetterPos, Line |-> l, FuncName |-> a.FuncName] :
        p \in Position, l \in SourceLines, a \in {GetA} }
    \cup
    { [Pos |-> p, GetterPos |-> a.GetterPos, Line |-> l, FuncName |-> a.FuncName] :
        p \in {q \in Position : q.Filename = <<1>> /\ q.Line = 1}, l \in SourceLines, a \in {GetB} }

\* the records of one line of one file: what a call that does not look at its
\* records is run on
OneLineErrors ==
    { e \in UnusedGetterError : e.Pos.Filename = <<1>> /\ e.Pos.Line = 1 }

Seqs(S, k) == [1..k -> S]

(***************************************************************************)
(* Go's < on strings.                                                      *)
(***************************************************************************)
RECURSIVE StrLess(_, _)
StrLess(s, t) ==
    IF t = <<>> THEN FALSE
    ELSE IF s = <<>> THEN TRUE
    ELSE IF Head(s) # Head(t) THEN Head(s) < Head(t)
    ELSE StrLess(Tail(s), Tail(t))

(***************************************************************************)
(* byName.Less                                                             *)
(***************************************************************************)
LessIgnoresLine(ei, ej) ==
    LET pi == ei.Pos
        pj == ej.Pos
    IN  IF pi.Filename # pj.Filename THEN StrLess(pi.Filename, pj.Filename)
        ELSE IF pi.Line # pj.Line THEN pi.Line < pj.Line
        ELSE pi.Column < pj.Column

LessLineFirst(ei, ej) ==
    LET pi == ei.Pos
        pj == ej.Pos
    IN  IF pi.Line # pj.Line THEN pi.Line < pj.Line
        ELSE IF pi.Filename # pj.Filename THEN StrLess(pi.Filename, pj.Filename)
        ELSE IF pi.Column # pj.Column THEN pi.Column < pj.Column
        ELSE StrLess(ei.Line, ej.Line)

Less(ei, ej) ==
    LET pi == ei.Pos
        pj == ej.Pos
    IN  IF pi.Filename # pj.Filename THEN StrLess(pi.Filename, pj.Filename)
        ELSE IF pi.Line # pj.Line THEN pi.Line < pj.Line
        ELSE IF pi.Column # pj.Column THEN pi.Column < pj.Column
        ELSE StrLess(ei.Line, ej.Line)

(***************************************************************************)
(* sort.Sort(byName(result)): it only swaps elements, and it leaves them   *)
(* ordered by Less; it is not stable, so elements that Less does not order *)
(* end in any order. The outcomes are built front to back: the first       *)
(* element is any element that no other element is Less than, and so on    *)
(* for the rest (the indices of s not yet placed).                         *)
(***************************************************************************)
RECURSIVE SortRest(_, _)
SortRest(s, rest) ==
    IF rest = {} THEN {<<>>}
    ELSE UNION { { <<s[i]>> \o t : t \in SortRest(s, rest \ {i}) } :
                 i \in { k \in rest : \A j \in rest : ~Less(s[j], s[k]) } }

SortSort(s) == SortRest(s, 1..Len(s))

(***************************************************************************)
(* The compaction loop of Unique: uniq := result[:0] shares result's       *)
(* array arr, so append(uniq, err) writes arr[n] while the loop still      *)
(* reads arr[i] and arr[i-1]. i is the loop index (from 1), n is len(uniq).*)
(***************************************************************************)
RECURSIVE CompactLoopByKey(_, _, _), CompactLoop(_, _, _)
CompactLoopByKey(arr, i, n) ==
    IF i > Len(arr) THEN SubSeq(arr, 1, n)
    ELSE IF i = 1 \/ arr[i].Pos # arr[i-1].Pos \/ arr[i].Line # arr[i-1].Line
         THEN CompactLoopByKey([arr EXCEPT ![n+1] = arr[i]], i+1, n+1)
         ELSE CompactLoopByKey(arr, i+1, n)

CompactLoop(arr, i, n) ==
    IF i > Len(arr) THEN SubSeq(arr, 1, n)
    ELSE IF i = 1 \/ arr[i] # arr[i-1]
         THEN CompactLoop([arr EXCEPT ![n+1] = arr[i]], i+1, n+1)
         ELSE CompactLoop(arr, i+1, n)

(***************************************************************************)
(* Result.Unique: the outcomes of one call on a receiver holding errs, as  *)
(* the receiver's records after the call and the records returned. The     *)
(* call copies the receiver's records into a new array, sorts the copy and *)
(* compacts it in place.                                                   *)
(***************************************************************************)
UniqueSortsReceiver(errs) ==
    { [receiver |-> s, ret |-> CompactLoop(s, 1, 0)] : s \in SortSort(errs) }

Unique(errs) ==
    LET copy == [i \in 1..Len(errs) |-> errs[i]]
    IN  { [receiver |-> errs, ret |-> CompactLoop(s, 1, 0)] : s \in SortSort(copy) }

(***************************************************************************)
(* Result.Append: the receiver's records after r.Append(other).            *)
(***************************************************************************)
AppendSkipsDuplicates(errs, o) ==
    errs \o SelectSeq(o, LAMBDA e : \A i \in 1..Len(errs) : errs[i] # e)

Append_(errs, o) == errs \o o

(***************************************************************************)
(* The result type on its own: a receiver and an argument drawn from the   *)
(* sample records, then r.Append(o), or r.Unique() and Unique() of what    *)
(* that returned.                                                          *)
(***************************************************************************)
Workers == 1..NumCPU

\* checkPaths is not running
CheckOff ==
    /\ loadErr = FALSE /\ pkgs = <<>> /\ write = FALSE
    /\ mpc = "off" /\ fi = 0 /\ si = 0
    /\ work = <<>> /\ closed = FALSE /\ wg = 0 /\ mu = 0
    /\ result = <<>> /\ ret = [res |-> <<>>, err |-> "pending"]
    /\ wpc = <<>> /\ wpkg = <<>> /\ wfile = <<>> /\ verrors = <<>>
    /\ takes = <<>> /\ checked = <<>> /\ pkgres = <<>> /\ written = <<>>
    /\ flagErr = FALSE /\ noGoFiles = FALSE /\ cpc = "off" /\ exit = -1

\* no Result is being exercised on its own
ResultOff ==
    /\ upc = "off" /\ recv = <<>> /\ other = <<>> /\ recv0 = <<>> /\ other0 = <<>>
    /\ uniq1 = <<>> /\ uniq2 = <<>>

\* no file is being traversed on its own
VisitOff ==
    /\ tpc = "off" /\ stmt = <<>> /\ names = <<>> /\ terrors = <<>>
    /\ comments = <<>> /\ generated = FALSE /\ disk = <<>> /\ line = 0

InitResult ==
    /\ CheckOff
    /\ VisitOff
    /\ upc \in {"unique", "append"}
    /\ \E k \in 0..MaxLen :
        IF upc = "append"
        THEN \E m \in 0..MaxLen-k :
                /\ recv \in Seqs(OneLineErrors, k)
                /\ other \in Seqs(OneLineErrors, m)
        ELSE /\ recv \in Seqs(UnusedGetterError, k)
             /\ other = <<>>
    /\ recv0 = recv
    /\ other0 = other
    /\ uniq1 = <<>>
    /\ uniq2 = <<>>

CallAppend ==
    /\ upc = "append"
    /\ recv' = Append_(recv, other)
    /\ upc' = "appended"
    /\ UNCHANGED <<other, recv0, other0, uniq1, uniq2, cvars, tvars>>

CallUnique ==
    /\ upc = "unique"
    /\ \E o \in Unique(recv) :
        /\ recv' = o.receiver
        /\ uniq1' = o.ret
    /\ upc' = "unique1"
    /\ UNCHANGED <<other, recv0, other0, uniq2, cvars, tvars>>

CallUniqueAgain ==
    /\ upc = "unique1"
    /\ \E o \in Unique(uniq1) :
        /\ uniq1' = o.receiver
        /\ uniq2' = o.ret
    /\ upc' = "unique2"
    /\ UNCHANGED <<recv, other, recv0, other0, cvars, tvars>>

NextResult == CallAppend \/ CallUnique \/ CallUniqueAgain

SpecResult == InitResult /\ [][NextResult]_vars

(***************************************************************************)
(* checkPaths and Checker.CheckPackage.                                    *)
(*                                                                         *)
(* A package is its loader errors (whether there are any) and its Syntax,  *)
(* the source files it is made of; the packages of one load may have files *)
(* in common (LoadPackages asks for the test variants of the packages).    *)
(* What the traversal of a file records is a function of the file and of   *)
(* the text the file has on disk when the visitor reads it (readfile),     *)
(* given here for two sample files.                                        *)
(***************************************************************************)
SourceFiles == {1, 2}

FileName(f) == IF f = 1 THEN <<1>> ELSE <<1, 2>>

\* the trimmed text of the flagged line of file f, as readfile finds it on
\* disk: the line as it was parsed, or, once CheckPackage has written the
\* file back, the line with its selectors replaced by the getter calls
FileLine(f, rewritten) == IF rewritten THEN <<f, 3>> ELSE <<f>>

\* the violations astutil.Apply(astFile, v.Visit, nil) records for file f, in
\* the order the visitor records them
FileErrors(f, rewritten) ==
    IF f = 1
    THEN << [Pos |-> [Filename |-> FileName(1), Line |-> 1, Column |-> 2],
             GetterPos |-> GetA.GetterPos, Line |-> FileLine(1, rewritten),
             FuncName |-> GetA.FuncName],
            [Pos |-> [Filename |-> FileName(1), Line |-> 1, Column |-> 1],
             GetterPos |-> GetA.GetterPos, Line |-> FileLine(1, rewritten),
             FuncName |-> GetA.FuncName] >>
    ELSE << [Pos |-> [Filename |-> FileName(2), Line |-> 2, Column |-> 1],
             GetterPos |-> GetA.GetterPos, Line |-> FileLine(2, rewritten),
             FuncName |-> GetA.FuncName] >>

Packages ==
    { [Errors |-> FALSE, Syntax |-> <<1>>],
      [Errors |-> FALSE, Syntax |-> <<1, 2>>],
      [Errors |-> TRUE,  Syntax |-> <<2>>] }

Pending == [res |-> <<>>, err |-> "pending"]

exitCodeOk == 0
exitUncheckedError == 1
exitFatalError == 2

InitCheck ==
    /\ ResultOff
    /\ VisitOff
    /\ flagErr \in BOOLEAN
    /\ loadErr \in BOOLEAN
    /\ noGoFiles \in BOOLEAN
    /\ write \in BOOLEAN
    /\ \E n \in 0..MaxPkgs :
        /\ pkgs \in Seqs(Packages, n)
        /\ loadErr => n = 0
        /\ write => n <= MaxWritePkgs
        /\ flagErr => n = 0 /\ ~loadErr /\ ~write
        /\ noGoFiles => loadErr
        /\ takes = [i \in 1..n |-> 0]
        /\ checked = [i \in 1..n |-> 0]
        /\ pkgres = [i \in 1..n |-> <<>>]
    /\ cpc = "parse"
    /\ exit = -1
    /\ mpc = "load"
    /\ fi = 1
    /\ si = 0
    /\ work = <<>>
    /\ closed = FALSE
    /\ wg = 0
    /\ mu = 0
    /\ result = <<>>
    /\ ret = Pending
    /\ wpc = [w \in Workers |-> "none"]
    /\ wpkg = [w \in Workers |-> 0]
    /\ wfile = [w \in Workers |-> 0]
    /\ verrors = [w \in Workers |-> <<>>]
    /\ written = [f \in SourceFiles |-> 0]

wvars == <<wpc, wpkg, wfile, verrors, takes, checked, pkgres, written>>

\* paths, rc := parseFlags(&checker, args); if rc != exitCodeOk { return rc }
ParseFlags ==
    /\ cpc = "parse"
    /\ IF flagErr
       THEN /\ exit' = exitFatalError
            /\ cpc' = "exited"
       ELSE /\ exit' = exit
            /\ cpc' = "check"
    /\ UNCHANGED <<uvars, tvars, loadErr, pkgs, write, flagErr, noGoFiles,
                   mpc, fi, si, work, closed, wg, mu, result, ret, wvars>>

\* mainCmd once checkPaths has returned
MainCmdNoGoFilesFatal ==
    /\ cpc = "check"
    /\ mpc = "returned"
    /\ exit' = IF ret.err # "nil" THEN exitFatalError
               ELSE IF Len(ret.res) > 0 THEN exitUncheckedError
               ELSE exitCodeOk
    /\ cpc' = "exited"
    /\ UNCHANGED <<uvars, tvars, loadErr, pkgs, write, flagErr, noGoFiles,
                   mpc, fi, si, work, closed, wg, mu, result, ret, wvars>>

MainCmd ==
    /\ cpc = "check"
    /\ mpc = "returned"
    /\ exit' = IF ret.err # "nil"
               THEN IF ret.err = "ErrNoGoFiles" THEN exitCodeOk ELSE exitFatalError
               ELSE IF Len(ret.res) > 0 THEN exitUncheckedError
               ELSE exitCodeOk
    /\ cpc' = "exited"
    /\ UNCHANGED <<uvars, tvars, loadErr, pkgs, write, flagErr, noGoFiles,
                   mpc, fi, si, work, closed, wg, mu, result, ret, wvars>>

\* pkgs, err := c.LoadPackages(paths...); work := make(chan, len(pkgs))
Load ==
    /\ cpc = "check"
    /\ mpc = "load"
    /\ IF loadErr
       THEN /\ ret' = [res |-> <<>>, err |-> IF noGoFiles THEN "ErrNoGoFiles" ELSE "load"]
            /\ mpc' = "returned"
       ELSE /\ mpc' = "fill"
            /\ ret' = ret
    /\ UNCHANGED <<uvars, tvars, loadErr, pkgs, write, flagErr, noGoFiles, cpc, exit, fi, si, work, closed, wg, mu, result, wvars>>

\* one iteration of: for _, pkg := range pkgs { if len(pkg.Errors) > 0 { return } work <- pkg },
\* or the end of the loop and close(work)
FillIgnoresErrors ==
    /\ mpc = "fill"
    /\ \/ /\ fi <= Len(pkgs)
          /\ Len(work) < Len(pkgs)
          /\ work' = Append(work, fi)
          /\ fi' = fi + 1
          /\ UNCHANGED <<mpc, ret, closed>>
       \/ /\ fi > Len(pkgs)
          /\ closed' = TRUE
          /\ mpc' = "spawn"
          /\ UNCHANGED <<fi, work, ret>>
    /\ UNCHANGED <<uvars, tvars, loadErr, pkgs, write, flagErr, noGoFiles, cpc, exit, si, wg, mu, result, wvars>>

Fill ==
    /\ mpc = "fill"
    /\ \/ /\ fi <= Len(pkgs)
          /\ pkgs[fi].Errors
          /\ ret' = [res |-> <<>>, err |-> "pkg"]
          /\ mpc' = "returned"
          /\ UNCHANGED <<fi, work, closed>>
       \/ /\ fi <= Len(pkgs)
          /\ ~pkgs[fi].Errors
          /\ Len(work) < Len(pkgs)
          /\ work' = Append(work, fi)
          /\ fi' = fi + 1
          /\ UNCHANGED <<mpc, ret, closed>>
       \/ /\ fi > Len(pkgs)
          /\ closed' = TRUE
          /\ mpc' = "spawn"
          /\ UNCHANGED <<fi, work, ret>>
    /\ UNCHANGED <<uvars, tvars, loadErr, pkgs, write, flagErr, noGoFiles, cpc, exit, si, wg, mu, result, wvars>>

\* one iteration of: for i := 0; i < runtime.NumCPU(); i++ { wg.Add(1); go func() {...}() }
Spawn ==
    /\ mpc = "spawn"
    /\ si < NumCPU
    /\ wg' = wg + 1
    /\ wpc' = [wpc EXCEPT ![si + 1] = "recv"]
    /\ si' = si + 1
    /\ UNCHANGED <<uvars, tvars, loadErr, pkgs, write, flagErr, noGoFiles, cpc, exit, mpc, fi, work, closed, mu, result, ret,
                   wpkg, wfile, verrors, takes, checked, pkgres, written>>

\* wg.Wait() returns
WaitReturnsEarly ==
    /\ mpc = "spawn"
    /\ si = NumCPU
    /\ mpc' = "unique"
    /\ UNCHANGED <<uvars, tvars, loadErr, pkgs, write, flagErr, noGoFiles, cpc, exit, fi, si, work, closed, wg, mu, result, ret, wvars>>

Wait ==
    /\ mpc = "spawn"
    /\ si = NumCPU
    /\ wg = 0
    /\ mpc' = "unique"
    /\ UNCHANGED <<uvars, tvars, loadErr, pkgs, write, flagErr, noGoFiles, cpc, exit, fi, si, work, closed, wg, mu, result, ret, wvars>>

\* return result.Unique(), nil
ReturnUnique ==
    /\ mpc = "unique"
    /\ \E o \in Unique(result) :
        /\ result' = o.receiver
        /\ ret' = [res |-> o.ret, err |-> "nil"]
    /\ mpc' = "returned"
    /\ UNCHANGED <<uvars, tvars, loadErr, pkgs, write, flagErr, noGoFiles, cpc, exit, fi, si, work, closed, wg, mu, wvars>>

\* the worker starts CheckPackage on the package it took, or, past the last
\* file of pkg.Syntax, CheckPackage returns
Enter(w, i, j, errors) ==
    IF j <= Len(pkgs[i].Syntax)
    THEN /\ wpc' = [wpc EXCEPT ![w] = "visit"]
         /\ wfile' = [wfile EXCEPT ![w] = j]
         /\ checked' = checked
         /\ pkgres' = pkgres
    ELSE /\ wpc' = [wpc EXCEPT ![w] = "lock"]
         /\ wfile' = [wfile EXCEPT ![w] = 0]
         /\ checked' = [checked EXCEPT ![i] = @ + 1]
         /\ pkgres' = [pkgres EXCEPT ![i] = errors]

\* for pkg := range work: a receive, or the end of the loop and wg.Done()
RecvPeeks(w) ==
    /\ wpc[w] = "recv"
    /\ \/ /\ work # <<>>
          /\ wpkg' = [wpkg EXCEPT ![w] = Head(work)]
          /\ verrors' = [verrors EXCEPT ![w] = <<>>]
          /\ takes' = [takes EXCEPT ![Head(work)] = @ + 1]
          /\ Enter(w, Head(work), 1, <<>>)
          /\ UNCHANGED <<wg, work>>
       \/ /\ work = <<>>
          /\ closed
          /\ wpc' = [wpc EXCEPT ![w] = "done"]
          /\ wg' = wg - 1
          /\ UNCHANGED <<work, wpkg, wfile, verrors, takes, checked, pkgres>>
    /\ UNCHANGED <<uvars, tvars, loadErr, pkgs, write, flagErr, noGoFiles, cpc, exit, mpc, fi, si, closed, mu, result, ret, written>>

Recv(w) ==
    /\ wpc[w] = "recv"
    /\ \/ /\ work # <<>>
          /\ work' = Tail(work)
          /\ wpkg' = [wpkg EXCEPT ![w] = Head(work)]
          /\ verrors' = [verrors EXCEPT ![w] = <<>>]
          /\ takes' = [takes EXCEPT ![Head(work)] = @ + 1]
          /\ Enter(w, Head(work), 1, <<>>)
          /\ UNCHANGED wg
       \/ /\ work = <<>>
          /\ closed
          /\ wpc' = [wpc EXCEPT ![w] = "done"]
          /\ wg' = wg - 1
          /\ UNCHANGED <<work, wpkg, wfile, verrors, takes, checked, pkgres>>
    /\ UNCHANGED <<uvars, tvars, loadErr, pkgs, write, flagErr, noGoFiles, cpc, exit, mpc, fi, si, closed, mu, result, ret, written>>

\* CheckPackage: astutil.Apply(astFile, v.Visit, nil) on the next file
Visit(w) ==
    /\ wpc[w] = "visit"
    /\ LET f == pkgs[wpkg[w]].Syntax[wfile[w]]
       IN  verrors' = [verrors EXCEPT ![w] = @ \o FileErrors(f, written[f] > 0)]
    /\ IF write
       THEN /\ wpc' = [wpc EXCEPT ![w] = "write"]
            /\ UNCHANGED <<wfile, checked, pkgres>>
       ELSE Enter(w, wpkg[w], wfile[w] + 1, verrors'[w])
    /\ UNCHANGED <<uvars, tvars, loadErr, pkgs, write, flagErr, noGoFiles, cpc, exit, mpc, fi, si, work, closed, wg, mu, result, ret,
                   wpkg, takes, written>>

\* CheckPackage: ioutil.WriteAndSyncFile(fileName, buf.Bytes(), 0644)
WriteFile(w) ==
    /\ wpc[w] = "write"
    /\ LET f == pkgs[wpkg[w]].Syntax[wfile[w]]
       IN  written' = [written EXCEPT ![f] = @ + 1]
    /\ Enter(w, wpkg[w], wfile[w] + 1, verrors[w])
    /\ UNCHANGED <<uvars, tvars, loadErr, pkgs, write, flagErr, noGoFiles, cpc, exit, mpc, fi, si, work, closed, wg, mu, result, ret,
                   wpkg, verrors, takes>>

\* mu.Lock()
LockNoExclusion(w) ==
    /\ wpc[w] = "lock"
    /\ mu' = w
    /\ wpc' = [wpc EXCEPT ![w] = "append"]
    /\ UNCHANGED <<uvars, tvars, loadErr, pkgs, write, flagErr, noGoFiles, cpc, exit, mpc, fi, si, work, closed, wg, result, ret,
                   wpkg, wfile, verrors, takes, checked, pkgres, written>>

Lock(w) ==
    /\ wpc[w] = "lock"
    /\ mu = 0
    /\ mu' = w
    /\ wpc' = [wpc EXCEPT ![w] = "append"]
    /\ UNCHANGED <<uvars, tvars, loadErr, pkgs, write, flagErr, noGoFiles, cpc, exit, mpc, fi, si, work, closed, wg, result, ret,
                   wpkg, wfile, verrors, takes, checked, pkgres, written>>

\* result.Append(r)
AppendResult(w) ==
    /\ wpc[w] = "append"
    /\ result' = Append_(result, verrors[w])
    /\ wpc' = [wpc EXCEPT ![w] = "unlock"]
    /\ UNCHANGED <<uvars, tvars, loadErr, pkgs, write, flagErr, noGoFiles, cpc, exit, mpc, fi, si, work, closed, wg, mu, ret,
                   wpkg, wfile, verrors, takes, checked, pkgres, written>>

\* mu.Unlock(), the end of the loop body: pkg and r go out of scope
UnlockKeepsMutex(w) ==
    /\ wpc[w] = "unlock"
    /\ wpc' = [wpc EXCEPT ![w] = "recv"]
    /\ wpkg' = [wpkg EXCEPT ![w] = 0]
    /\ verrors' = [verrors EXCEPT ![w] = <<>>]
    /\ UNCHANGED <<uvars, tvars, loadErr, pkgs, write, flagErr, noGoFiles, cpc, exit, mpc, fi, si, work, closed, wg, mu, result, ret,
                   wfile, takes, checked, pkgres, written>>

Unlock(w) ==
    /\ wpc[w] = "unlock"
    /\ mu' = 0
    /\ wpc' = [wpc EXCEPT ![w] = "recv"]
    /\ wpkg' = [wpkg EXCEPT ![w] = 0]
    /\ verrors' = [verrors EXCEPT ![w] = <<>>]
    /\ UNCHANGED <<uvars, tvars, loadErr, pkgs, write, flagErr, noGoFiles, cpc, exit, mpc, fi, si, work, closed, wg, result, ret,
                   wfile, takes, checked, pkgres, written>>

Worker(w) ==
    Recv(w) \/ Visit(w) \/ WriteFile(w) \/ Lock(w) \/ AppendResult(w) \/ Unlock(w)

NextCheck ==
    \/ ParseFlags \/ MainCmd
    \/ Load \/ Fill \/ Spawn \/ Wait \/ ReturnUnique
    \/ \E w \in Workers : Worker(w)

SpecCheck == InitCheck /\ [][NextCheck]_vars

\* mainCmd's goroutine and the goroutines it starts are each scheduled again
\* and again while they can take a step
SpecCheckFair ==
    /\ SpecCheck
    /\ WF_vars(ParseFlags \/ MainCmd \/ Load \/ Fill \/ Spawn \/ Wait \/ ReturnUnique)
    /\ \A w \in Workers : WF_vars(Worker(w))

(***************************************************************************)
(* The visitor (gettercheck/gettercheck_visitor.go) on one statement.      *)
(*                                                                         *)
(* A string is modelled here by the tuple of its tokens ("Get" + "Name" +  *)
(* "()" is <<"Get", "Name", "()">>), a types.Type by the tokens of its     *)
(* String() (<<"*", "Basic">>). A syntax node is a record with its kind    *)
(* and its children; what typesInfo and fset answer for an identifier is   *)
(* kept with the identifier. A node is identified by its path from the     *)
(* statement (the indices of the children taken), and a column counts the  *)
(* identifiers of the line up to the one it is the column of.              *)
(***************************************************************************)
MaxChain == 3           \* the selectors of a chain
MaxWrap == 2            \* the operators, parentheses and literals around a chain
MaxTargets == 2         \* the targets of an assignment
MaxLits == 4            \* the literals and address operators around a value
MaxComments == 2        \* the comments of a file
MaxLines == 2           \* the lines of a file on disk

\* the declared types: the fields and the methods of the structs of the
\* generated file (basic.pb.go) and of a hand-written one (manual.go)
Structs == {"Basic", "Parent", "GrandParent", "ChildNoGetter", "Manual"}

PbGo == <<"basic", ".pb.go">>
ManualGo == <<"manual", ".go">>

\* the Sel of a selector: the identifier's Name and, from typesInfo and fset,
\* the kind of object it denotes, the file that declares the object, the
\* identifier's type and, for a method, the type of the result
Var(name, typ, decl) ==
    [Name |-> <<name>>, obj |-> "Var", decl |-> decl, typ |-> typ, res |-> <<>>]

Func(name, res, decl) ==
    [Name |-> <<name>>, obj |-> "Func", decl |-> decl, typ |-> <<"func">>, res |-> res]

FieldsOf(S) ==
    CASE S = "Basic" ->
            { Var("Name", <<"string">>, PbGo), Var("Address", <<"*", "string">>, PbGo),
              Var("Count", <<"*", "uint">>, PbGo), Var("Size", <<"int32">>, PbGo) }
      [] S = "Parent" -> { Var("Child", <<"*", "Basic">>, PbGo) }
      [] S = "GrandParent" -> { Var("Child", <<"*", "Parent">>, PbGo) }
      [] S = "ChildNoGetter" ->
            { Var("Name", <<"string">>, PbGo), Var("Tag", <<"string">>, PbGo) }
      [] S = "Manual" -> { Var("Name", <<"string">>, ManualGo) }
      [] OTHER -> {}

\* the names of the methods declared on the named type S
MethodsOf(S) ==
    CASE S = "Basic" -> { <<"Get", "Name">>, <<"Get", "Address">>, <<"Get", "Count">>,
                          <<"Get", "Size">> }
      [] S = "Parent" -> { <<"Get", "Child">> }
      [] S = "GrandParent" -> { <<"Get", "Child">> }
      [] S = "ChildNoGetter" -> { <<"Get", "Tag">> }
      [] S = "Manual" -> { <<"Get", "Name">> }
      [] OTHER -> {}

\* the number of parameters in the signature of the method of S of that
\* name: GetTag(key string) takes one, the accessors of the generator none
ParamsOf(S, methodName) ==
    IF S = "ChildNoGetter" /\ methodName = <<"Get", "Tag">> THEN 1 ELSE 0

\* the methods the sample statements call
CalledOf(S) ==
    IF S = "Parent" THEN { Func("GetChild", <<"*", "Basic">>, PbGo) } ELSE {}

\* syntax nodes
Ident(typ) == [kind |-> "Ident", typ |-> typ]
SelectorExpr(x, sel) == [kind |-> "SelectorExpr", X |-> x, Sel |-> sel]
CallExpr(fun) == [kind |-> "CallExpr", Fun |-> fun]
ParenExpr(x) == [kind |-> "ParenExpr", X |-> x]
UnaryExpr(op, x) == [kind |-> "UnaryExpr", Op |-> op, X |-> x]
BinaryExpr(x, op, y) == [kind |-> "BinaryExpr", X |-> x, Op |-> op, Y |-> y]
KeyValueExpr(key, value) == [kind |-> "KeyValueExpr", Key |-> key, Value |-> value]
CompositeLit(type, elts) == [kind |-> "CompositeLit", Type |-> type, Elts |-> elts]
AssignStmt(lhs, rhs) == [kind |-> "AssignStmt", Lhs |-> lhs, Rhs |-> rhs]
IfStmt(cond) == [kind |-> "IfStmt", Cond |-> cond]

Nil == Ident(<<"untyped nil">>)

\* what the type checker leaves unresolved in a file with type errors: an
\* undeclared name, for which typesInfo.TypeOf is nil, and a selector of no
\* field or method, for whose Sel ObjectOf and TypeOf are nil
NoType == <<>>
Undeclared == Ident(NoType)
NoObject == [Name |-> <<"Nope">>, obj |-> "nil", decl |-> <<>>, typ |-> NoType, res |-> <<>>]
Blank == Ident(<<"_">>)

IsPointer(t) == Len(t) > 1 /\ t[1] = "*"
IsNamed(t) == Len(t) = 1 /\ t[1] \in Structs

\* typesInfo.TypeOf(e)
RECURSIVE TypeOf(_)
TypeOf(e) ==
    CASE e.kind = "Ident" -> e.typ
      [] e.kind = "SelectorExpr" -> e.Sel.typ
      [] e.kind = "CallExpr" -> e.Fun.Sel.res
      [] e.kind = "ParenExpr" -> TypeOf(e.X)
      [] e.kind = "UnaryExpr" ->
            IF e.Op = "&" THEN <<"*">> \o TypeOf(e.X) ELSE TypeOf(e.X)
      [] e.kind = "BinaryExpr" -> <<"bool">>
      [] e.kind = "CompositeLit" -> <<e.Type>>
      [] OTHER -> <<>>

\* the struct whose fields and methods the expressions of type t select
StructOf(t) == IF t = <<>> THEN "" ELSE t[Len(t)]

\* the sample statements: chains of selectors and calls on a variable of
\* each struct, wrapped in the operators, parentheses and literals their
\* types allow, read or assigned to
Receivers ==
    { Ident(<<"Basic">>), Ident(<<"*", "Parent">>), Ident(<<"GrandParent">>),
      Ident(<<"ChildNoGetter">>), Ident(<<"*", "Manual">>) }

SelsOn(x) ==
    { SelectorExpr(x, f) : f \in FieldsOf(StructOf(TypeOf(x))) }
    \cup { CallExpr(SelectorExpr(x, m)) : m \in CalledOf(StructOf(TypeOf(x))) }

RECURSIVE Chains(_)
Chains(n) ==
    IF n = 0 THEN Receivers
    ELSE Chains(n - 1) \cup UNION { SelsOn(x) : x \in Chains(n - 1) }

Fields == { e \in Chains(MaxChain) : e.kind = "SelectorExpr" }

RECURSIVE Addressable(_)
Addressable(e) ==
    CASE e.kind = "SelectorExpr" -> TRUE
      [] e.kind = "CompositeLit" -> TRUE
      [] e.kind = "ParenExpr" -> Addressable(e.X)
      [] OTHER -> FALSE

Wrap(e) ==
    LET t == TypeOf(e)
    IN  { ParenExpr(e) }
        \cup (IF Addressable(e) THEN { UnaryExpr("&", e) } ELSE {})
        \cup (IF t = <<"int32">> THEN { UnaryExpr("-", e) } ELSE {})
        \cup (IF t = <<"bool">>
              THEN { UnaryExpr("!", IF e.kind = "BinaryExpr" THEN ParenExpr(e) ELSE e) }
              ELSE {})
        \cup (IF IsPointer(t)
              THEN { BinaryExpr(e, "==", Nil), BinaryExpr(e, "!=", Nil),
                     BinaryExpr(Nil, "==", e) }
              ELSE {})
        \cup (IF t = <<"string">>
              THEN { CompositeLit("Basic", <<KeyValueExpr(Ident(<<"string">>), e)>>) }
              ELSE {})
        \cup (IF t = <<"*", "Basic">>
              THEN { CompositeLit("Parent", <<KeyValueExpr(Ident(<<"*", "Basic">>), e)>>) }
              ELSE {})

RECURSIVE Exprs(_)
Exprs(n) ==
    IF n = 0 THEN { e \in Chains(MaxChain) : e.kind # "Ident" }
    ELSE Exprs(n - 1) \cup UNION { Wrap(e) : e \in Exprs(n - 1) }

\* assignments to k fields, and assignments of k fields to blank identifiers
AssignmentsTo(k) ==
    { AssignStmt(l, [i \in 1..k |-> Ident(TypeOf(l[i]))]) : l \in Seqs(Fields, k) }

AssignmentsOf(k) ==
    { AssignStmt([i \in 1..k |-> Blank], r) : r \in Seqs(Fields, k) }

\* a field as the value of a key: value pair of a composite literal, the
\* literal addressed or not, as deep as the types allow
LitWrap(e) ==
    LET t == TypeOf(e)
    IN  (IF e.kind = "CompositeLit" THEN { UnaryExpr("&", e) } ELSE {})
        \cup (IF t = <<"string">>
              THEN { CompositeLit("Basic", <<KeyValueExpr(Ident(<<"string">>), e)>>) }
              ELSE {})
        \cup (IF t = <<"*", "Basic">>
              THEN { CompositeLit("Parent", <<KeyValueExpr(Ident(<<"*", "Basic">>), e)>>) }
              ELSE {})
        \cup (IF t = <<"*", "Parent">>
              THEN { CompositeLit("GrandParent", <<KeyValueExpr(Ident(<<"*", "Parent">>), e)>>) }
              ELSE {})

RECURSIVE Lits(_, _)
Lits(e, n) ==
    IF n = 0 THEN {}
    ELSE LitWrap(e) \cup UNION { Lits(w, n - 1) : w \in LitWrap(e) }

Literals == UNION { Lits(f, MaxLits) : f \in Fields }

\* statements the type checker reports an error for
Unresolved ==
    { IfStmt(BinaryExpr(f, "==", Undeclared)) : f \in Fields }
    \cup { IfStmt(BinaryExpr(SelectorExpr(x, NoObject), "==", Nil)) : x \in Receivers }
    \cup { AssignStmt(<<Blank>>, <<SelectorExpr(x, NoObject)>>) : x \in Receivers }

Stmts ==
    { AssignStmt(<<Blank>>, <<e>>) : e \in Exprs(MaxWrap) }
    \cup Unresolved
    \cup { AssignStmt(<<Blank>>, <<e>>) : e \in Literals }
    \cup { IfStmt(e) : e \in { c \in Exprs(MaxWrap) : TypeOf(c) = <<"bool">> } }
    \cup { AssignStmt(<<e>>, <<Ident(TypeOf(e))>>) : e \in { ParenExpr(f) : f \in Fields } }

\* the children astutil.Apply descends to, in its order (the Sel of a
\* selector and the Type of a literal are identifiers it visits too, on
\* which Visit does nothing)
Kids(n) ==
    CASE n.kind = "SelectorExpr" -> <<n.X>>
      [] n.kind = "CallExpr" -> <<n.Fun>>
      [] n.kind = "ParenExpr" -> <<n.X>>
      [] n.kind = "UnaryExpr" -> <<n.X>>
      [] n.kind = "BinaryExpr" -> <<n.X, n.Y>>
      [] n.kind = "KeyValueExpr" -> <<n.Key, n.Value>>
      [] n.kind = "CompositeLit" -> n.Elts
      [] n.kind = "AssignStmt" -> n.Lhs \o n.Rhs
      [] n.kind = "IfStmt" -> <<n.Cond>>
      [] OTHER -> <<>>

\* fset.Position: the identifiers of n, and the column of n's k-th child and
\* of n's Sel when n starts at column col
RECURSIVE Width(_), WidthOfKids(_, _)
Width(n) ==
    CASE n.kind = "Ident" -> 1
      [] n.kind = "SelectorExpr" -> Width(n.X) + 1
      [] n.kind = "CompositeLit" -> 1 + WidthOfKids(n, Len(n.Elts))
      [] OTHER -> WidthOfKids(n, Len(Kids(n)))

WidthOfKids(n, k) ==
    IF k = 0 THEN 0 ELSE WidthOfKids(n, k - 1) + Width(Kids(n)[k])

KidColumn(n, col, k) ==
    col + (IF n.kind = "CompositeLit" THEN 1 ELSE 0) + WidthOfKids(n, k - 1)

SelColumn(n, col) == col + Width(n.X)

\* strings.Contains
Contains(s, substr) ==
    \E i \in 0..Len(s) - Len(substr) :
        \A j \in 1..Len(substr) : s[i + j] = substr[j]

\* goPos.String() of the declaration of sel, and the test made on it
PositionString(sel) == sel.decl \o <<":", "1", ":", "1">>

DeclaredAnywhere(sel) == TRUE

DeclaredInPbGo(sel) == Contains(PositionString(sel), <<".pb.go", ":">>)

\* FindMethod: whether a method is found
RECURSIVE FindMethod(_, _)
FindMethod(p, methodName) ==
    IF IsPointer(p) THEN FindMethod(Tail(p), methodName)
    ELSE IF IsNamed(p) THEN methodName \in MethodsOf(p[1])
    ELSE FALSE

basicPointerTypes ==
    { <<"*", "string">>, <<"*", "int">>, <<"*", "bool">>, <<"*", "int32">>,
      <<"*", "int64">>, <<"*", "float32">>, <<"*", "float64">>, <<"*", "uint32">>,
      <<"*", "uint64">> }

\* c.Parent() of the root of an astutil.Apply: no node of the tree
NoParent == [node |-> [kind |-> "root"], k |-> 0]

\* Visit, case *ast.SelectorExpr: the three switches on c.Parent(), for the
\* selector that is the k-th child of par.node
IsFirstAssignTarget(par) ==
    par.node.kind = "AssignStmt" /\ par.k = 1

IsAssignTarget(par) ==
    par.node.kind = "AssignStmt" /\ par.k <= Len(par.node.Lhs)

IsComparisonWithNilAnyOp(par) ==
    /\ par.node.kind = "BinaryExpr"
    /\ par.node.Y.kind = "Ident"
    /\ TypeOf(par.node.Y) = <<"untyped nil">>
    /\ par.node.X.kind = "SelectorExpr"
    /\ par.node.X.Sel.typ \in basicPointerTypes

IsComparisonWithNil(par) ==
    /\ par.node.kind = "BinaryExpr"
    /\ par.node.Op = "=="
    /\ par.node.Y.kind = "Ident"
    /\ TypeOf(par.node.Y) = <<"untyped nil">>
    /\ par.node.X.kind = "SelectorExpr"
    /\ par.node.X.Sel.typ \in basicPointerTypes

\* case *ast.BinaryExpr calls String() on TypeOf(p.Y) and on
\* TypeOf(sel.Sel), either of which may be nil
IsNilTypeInComparison(par) ==
    /\ par.node.kind = "BinaryExpr"
    /\ par.node.Op = "=="
    /\ par.node.Y.kind = "Ident"
    /\ \/ TypeOf(par.node.Y) = NoType
       \/ /\ TypeOf(par.node.Y) = <<"untyped nil">>
          /\ par.node.X.kind = "SelectorExpr"
          /\ par.node.X.Sel.typ = NoType

NoAddressOperand(par) == FALSE

IsAddressOperand(par) ==
    par.node.kind = "UnaryExpr" /\ par.node.Op = "&"

\* white space
Space == {" ", "\t"}

\* strings.TrimSpace, on a text given as the tuple of its parts
RECURSIVE TrimLeft(_), TrimRight(_)
TrimLeft(s) == IF s # <<>> /\ Head(s) \in Space THEN TrimLeft(Tail(s)) ELSE s
TrimRight(s) ==
    IF s # <<>> /\ s[Len(s)] \in Space THEN TrimRight(SubSeq(s, 1, Len(s) - 1)) ELSE s

TrimSpace(s) == TrimRight(TrimLeft(s))

\* the Sel.Name of the selector at path: the parsed one, or the one Visit gave it
NameAtAsParsed(st, path, n) == n.Sel.Name

NameAt(st, path, n) ==
    IF path \in DOMAIN st.names THEN st.names[path] ELSE n.Sel.Name

\* addErrorAtPosition; a visitor made without its lines map panics on
\* v.lines[pos.Filename] = lines
AddErrorAtPosition(st, col, name, hasLines) ==
    IF hasLines
    THEN [st EXCEPT !.errors =
            Append(@, [Pos |-> [Filename |-> <<1>>, Line |-> line, Column |-> col],
                       GetterPos |-> [Filename |-> PbGo, Line |-> 1, Column |-> 1],
                       Line |-> IF line - 1 < Len(disk) THEN TrimSpace(disk[line])
                                ELSE <<"??">>,
                       FuncName |-> name])]
    ELSE [st EXCEPT !.panicked = TRUE]

\* Visit, case *ast.SelectorExpr, for the selector n at path; vis is the
\* visitor: "v" the one CheckPackage made, "rv" one UnaryVisitor.Visit made
VisitSelector(n, par, path, col, vis, st) ==
    IF IsNilTypeInComparison(par) THEN [st EXCEPT !.panicked = TRUE]
    ELSE IF IsAssignTarget(par) \/ IsComparisonWithNil(par) \/ IsAddressOperand(par) THEN st
    ELSE IF n.Sel.obj # "Var" THEN st
    ELSE IF ~DeclaredInPbGo(n.Sel) THEN st
    ELSE LET getter == <<"Get">> \o NameAt(st, path, n)
         IN  IF FindMethod(TypeOf(n.X), getter)
             THEN AddErrorAtPosition(
                      [st EXCEPT !.names = (path :> (getter \o <<"()">>)) @@ @],
                      SelColumn(n, col), getter \o <<"()">>, vis = "v")
             ELSE st

\* astutil.Apply(root, pre, nil) with pre the Visit of visitor vis ("uV" is a
\* UnaryVisitor), and the two Visit functions, which call it again
RECURSIVE Walk(_, _, _, _, _, _), WalkKids(_, _, _, _, _, _),
          VisitorVisit(_, _, _, _, _, _), UnaryVisitorVisit(_, _, _, _, _, _)
Apply(root, path, col, vis, st) == Walk(root, NoParent, path, col, vis, st)

WalkKidsFirst(n, par, path, col, vis, st) ==
    IF st.panicked THEN st
    ELSE LET below == WalkKids(n, path, col, vis, st, 1)
         IN  IF below.panicked THEN below
             ELSE IF vis = "uV" THEN UnaryVisitorVisit(n, par, path, col, vis, below)
             ELSE VisitorVisit(n, par, path, col, vis, below)

Walk(n, par, path, col, vis, st) ==
    IF st.panicked THEN st
    ELSE WalkKids(n, path, col, vis,
                  IF vis = "uV" THEN UnaryVisitorVisit(n, par, path, col, vis, st)
                  ELSE VisitorVisit(n, par, path, col, vis, st),
                  1)

WalkKids(n, path, col, vis, st, k) ==
    IF k > Len(Kids(n)) THEN st
    ELSE WalkKids(n, path, col, vis,
                  Walk(Kids(n)[k], [node |-> n, k |-> k], Append(path, k),
                       KidColumn(n, col, k), vis, st),
                  k + 1)

VisitorVisitReceiverFirst(n, par, path, col, vis, st) ==
    CASE n.kind = "SelectorExpr" ->
            LET below == Apply(n.X, Append(path, 1), col, vis, st)
            IN  IF below.panicked THEN below
                ELSE VisitSelector(n, par, path, col, vis, below)
      [] n.kind = "KeyValueExpr" ->
            Apply(n.Value, Append(path, 2), KidColumn(n, col, 2), vis, st)
      [] n.kind = "UnaryExpr" ->
            IF n.X.kind = "SelectorExpr"
            THEN Apply(n.X.X, path \o <<1, 1>>, col, vis, st)
            ELSE Apply(n.X, Append(path, 1), col, "uV", st)
      [] OTHER -> st

VisitorVisit(n, par, path, col, vis, st) ==
    CASE n.kind = "SelectorExpr" -> VisitSelector(n, par, path, col, vis, st)
      [] n.kind = "KeyValueExpr" ->
            Apply(n.Value, Append(path, 2), KidColumn(n, col, 2), vis, st)
      [] n.kind = "UnaryExpr" ->
            IF n.X.kind = "SelectorExpr"
            THEN Apply(n.X.X, path \o <<1, 1>>, col, vis, st)
            ELSE Apply(n.X, Append(path, 1), col, "uV", st)
      [] OTHER -> st

UnaryVisitorVisit(n, par, path, col, vis, st) ==
    CASE n.kind = "ParenExpr" ->
            IF n.X.kind = "SelectorExpr"
            THEN Apply(n.X.X, path \o <<1, 1>>, col, "rv", st)
            ELSE IF n.X.kind = "ParenExpr"
            THEN Apply(n.X.X, path \o <<1, 1>>, col, "uV", st)
            ELSE st
      [] n.kind = "SelectorExpr" -> Apply(n.X, Append(path, 1), col, "uV", st)
      [] OTHER -> st

\* the accessor call format.Node prints for a renamed Sel, as the loader
\* resolves it when the written file is loaded again: a method of the
\* generated file that returns the field
Accessor(sel) ==
    [Name |-> <<"Get">> \o sel.Name, obj |-> "Func", decl |-> PbGo,
     typ |-> <<"func">>, res |-> sel.typ]

\* the tree of the file CheckPackage wrote, parsed again: every selector
\* Visit renamed (ns holds their paths) is the Fun of a call of the accessor
RECURSIVE Reparse(_, _, _)
ReparseAsLoaded(n, path, ns) == n

Reparse(n, path, ns) ==
    LET kid(k) == Reparse(Kids(n)[k], Append(path, k), ns)
    IN  CASE n.kind = "SelectorExpr" ->
                IF path \in DOMAIN ns
                THEN CallExpr(SelectorExpr(kid(1), Accessor(n.Sel)))
                ELSE SelectorExpr(kid(1), n.Sel)
          [] n.kind = "CallExpr" -> CallExpr(kid(1))
          [] n.kind = "ParenExpr" -> ParenExpr(kid(1))
          [] n.kind = "UnaryExpr" -> UnaryExpr(n.Op, kid(1))
          [] n.kind = "BinaryExpr" -> BinaryExpr(kid(1), n.Op, kid(2))
          [] n.kind = "KeyValueExpr" -> KeyValueExpr(kid(1), kid(2))
          [] n.kind = "CompositeLit" ->
                CompositeLit(n.Type, [k \in 1..Len(n.Elts) |-> kid(k)])
          [] n.kind = "AssignStmt" ->
                AssignStmt([k \in 1..Len(n.Lhs) |-> kid(k)],
                           [k \in 1..Len(n.Rhs) |-> kid(Len(n.Lhs) + k)])
          [] n.kind = "IfStmt" -> IfStmt(kid(1))
          [] OTHER -> n

\* the Text of a comment, as the tuple of its parts: a line comment or a
\* block comment, with or without the marker of generated code
CommentTexts ==
    { <<"//", " ", "Code generated", " by protoc-gen-go. ", "DO NOT EDIT.">>,
      <<"//", "\t", " ", "Code generated", "DO NOT EDIT.">>,
      <<"//", "Code generated", " ", "DO NOT EDIT.">>,
      <<"//", " ", "Code generated", " ", "DO NOT EDIT.", " ">>,
      <<"/*", " ", "Code generated", " ", "DO NOT EDIT.", "*/">>,
      <<"//", " ", "the main file">> }

\* generatedCodeRegexp.MatchString(text), ^//\s+Code generated.*DO NOT EDIT\.$
GeneratedCodeRegexpMatch(text) ==
    \E k \in 2..Len(text) - 2 :
        /\ text[1] = "//"
        /\ \A j \in 2..k : text[j] \in Space
        /\ text[k + 1] = "Code generated"
        /\ text[Len(text)] = "DO NOT EDIT."

\* shouldSkipFile
ShouldSkipFileFirstComment(exclude, cs) ==
    exclude /\ cs # <<>> /\ GeneratedCodeRegexpMatch(cs[1])

ShouldSkipFile(exclude, cs) ==
    exclude /\ \E i \in 1..Len(cs) : GeneratedCodeRegexpMatch(cs[i])

\* the text of a line of the file on disk
LineTexts == { <<"\t", "x", " ">>, <<"x">>, <<" ", "\t">>, <<"x", " ", "y">> }

\* the statements of the files with comments
Commented ==
    { AssignStmt(<<Blank>>, <<SelectorExpr(Ident(<<"Basic">>), Var("Name", <<"string">>, PbGo))>>),
      AssignStmt(<<Blank>>, <<Ident(<<"string">>)>>) }

\* CheckPackage on a file whose body is the statement stmt: the file is
\* skipped, or the traversal returns v.errors, or it panics. The files of
\* the statements have no comments and are checked as the tests check them
\* (GeneratedFiles: true); the files with comments hold a field read or none.
InitVisit ==
    /\ ResultOff
    /\ CheckOff
    /\ tpc = "check"
    /\ \/ /\ \/ stmt \in Stmts
             \/ \E k \in 1..MaxTargets : stmt \in AssignmentsTo(k)
             \/ \E k \in 1..MaxTargets : stmt \in AssignmentsOf(k)
          /\ comments = <<>>
          /\ generated = TRUE
          /\ disk = << <<"x">> >>
          /\ line = 1
       \/ /\ stmt \in Commented
          /\ generated \in BOOLEAN
          /\ \E k \in 0..MaxComments : comments \in Seqs(CommentTexts, k)
          /\ disk = << <<"x">> >>
          /\ line = 1
       \/ /\ stmt \in Commented
          /\ comments = <<>>
          /\ generated = TRUE
          /\ \E k \in 0..MaxLines : disk \in Seqs(LineTexts, k)
          /\ line \in 1..MaxLines + 1
    /\ names = <<>>
    /\ terrors = <<>>

CheckPackage ==
    /\ tpc = "check"
    /\ IF ShouldSkipFile(generated, comments)
       THEN /\ tpc' = "skipped"
            /\ UNCHANGED <<terrors, names>>
       ELSE LET st == Apply(stmt, <<>>, 1, "v",
                            [errors |-> <<>>, names |-> <<>>, panicked |-> FALSE])
            IN  /\ tpc' = IF st.panicked THEN "panicked" ELSE "returned"
                /\ terrors' = IF st.panicked THEN <<>> ELSE st.errors
                /\ names' = st.names
    /\ UNCHANGED <<stmt, comments, generated, disk, line, uvars, cvars>>

NextVisit == CheckPackage

SpecVisit == InitVisit /\ [][NextVisit]_vars

(***************************************************************************)
(* Properties of Result (SpecResult).                                      *)
(***************************************************************************)
\* the key the deduplicator is said to sort by
SameKey(a, b) ==
    /\ a.Pos.Filename = b.Pos.Filename
    /\ a.Pos.Line = b.Pos.Line
    /\ a.Pos.Column = b.Pos.Column
    /\ a.Line = b.Line

SortsAfter(a, b) ==
    \/ StrLess(b.Pos.Filename, a.Pos.Filename)
    \/ /\ a.Pos.Filename = b.Pos.Filename
       /\ \/ a.Pos.Line > b.Pos.Line
          \/ /\ a.Pos.Line = b.Pos.Line
             /\ \/ a.Pos.Column > b.Pos.Column
                \/ /\ a.Pos.Column = b.Pos.Column
                   /\ StrLess(b.Line, a.Line)

KeyDeterminesRecord(s) ==
    \A i, j \in 1..Len(s) : SameKey(s[i], s[j]) => s[i] = s[j]

NoSharedKey(s) ==
    \A i \in 1..Len(s) : \A j \in i+1..Len(s) : ~SameKey(s[i], s[j])

\* C1: Unique is idempotent: Unique of what Unique returned is the same
\* sequence. (Stated as claimed; the sort may reorder records that tie.)
C1_UniqueIdempotent ==
    upc = "unique2" => uniq2 = uniq1

\* C2, as claimed: after Unique no two violations of the output share the same
\* (file, line, column, source-line text).
C2_NoSharedKeyAnyInput ==
    upc = "unique1" => NoSharedKey(uniq1)

\* C2, amended: when the input's records that share (file, line, column,
\* source-line text) are equal in all fields, no two violations of Unique's
\* output share that tuple.
C2_NoSharedKeyWhenKeyDeterminesRecord ==
    (upc = "unique1" /\ KeyDeterminesRecord(recv0)) => NoSharedKey(uniq1)

C2_Witness ==
    /\ upc = "unique1"
    /\ KeyDeterminesRecord(recv0)
    /\ Len(recv0) = 3
    /\ recv0[1] = recv0[3]
    /\ recv0[1] # recv0[2]
    /\ Len(uniq1) = 2

\* C3: the output of Unique never holds two records equal in all fields.
C3_OnlyUniqueRecords ==
    upc = "unique1" =>
        \A i \in 1..Len(uniq1) : \A j \in i+1..Len(uniq1) : uniq1[i] # uniq1[j]

\* C4: the output of Unique is ascending by (file name, line, column,
\* source-line text): no record sorts after the one that follows it.
C4_OutputAscending ==
    /\ upc \in {"unique1", "unique2"} =>
        \A i \in 1..Len(uniq1)-1 : ~SortsAfter(uniq1[i], uniq1[i+1])
    /\ upc = "unique2" =>
        \A i \in 1..Len(uniq2)-1 : ~SortsAfter(uniq2[i], uniq2[i+1])

C4_Witness ==
    /\ upc = "unique1"
    /\ Len(uniq1) = 3
    /\ SortsAfter(recv0[1], recv0[2])
    /\ SortsAfter(recv0[2], recv0[3])
    /\ recv0[1].Pos.Filename # recv0[3].Pos.Filename
    /\ recv0[1].Pos.Line < recv0[3].Pos.Line

\* C5: Unique leaves its receiver unmodified: after r.Unique() r holds the
\* same records in the same order as before the call.
C5_ReceiverUnmodified ==
    upc \in {"unique1", "unique2"} => recv = recv0

C5_Witness ==
    /\ upc = "unique1"
    /\ Len(recv0) = 3
    /\ SortsAfter(recv0[1], recv0[2])
    /\ recv0[2] = recv0[3]
    /\ Len(uniq1) = 2
    /\ recv = recv0

\* C6: Append is plain concatenation: after r.Append(o), r holds its previous
\* records followed by all records of o in order, its length is the sum of
\* both lengths, and o is unchanged.
C6_AppendConcatenates ==
    upc = "appended" =>
        /\ Len(recv) = Len(recv0) + Len(other0)
        /\ \A i \in 1..Len(recv0) : recv[i] = recv0[i]
        /\ \A j \in 1..Len(other0) : recv[Len(recv0) + j] = other0[j]
        /\ other = other0

C6_Witness ==
    /\ upc = "appended"
    /\ Len(recv0) = 1
    /\ Len(other0) = 2
    /\ other0[1] # other0[2]
    /\ other0[2] = recv0[1]
    /\ Len(recv) = 3

(***************************************************************************)
(* Properties of checkPaths (SpecCheck).                                   *)
(***************************************************************************)
PkgIndices == 1..Len(pkgs)

\* what CheckPackage returns for package p while none of its files has been
\* rewritten: the violations of its files, in order
RECURSIVE PkgErrors(_, _)
PkgErrors(p, j) ==
    IF j > Len(p.Syntax) THEN <<>>
    ELSE FileErrors(p.Syntax[j], FALSE) \o PkgErrors(p, j + 1)

\* what CheckPackage returns for package p when it reads the text of its
\* j-th file after the file was rewritten exactly if t[j]
RECURSIVE FilesErrors(_, _, _)
FilesErrors(p, t, j) ==
    IF j > Len(p.Syntax) THEN <<>>
    ELSE FileErrors(p.Syntax[j], t[j]) \o FilesErrors(p, t, j + 1)

\* what CheckPackage returned for the packages order[k], order[k+1], ... one
\* after the other
RECURSIVE MergeInOrder(_, _)
MergeInOrder(order, k) ==
    IF k > Len(pkgs) THEN <<>>
    ELSE pkgres[order[k]] \o MergeInOrder(order, k + 1)

\* C7: checkPaths fails fast: when a loaded package carries errors, no package
\* is received or traversed, no worker is started and no file is written, the
\* call is never blocked, and what it returns is an error and an empty result.
C7_FailFast ==
    (\E i \in PkgIndices : pkgs[i].Errors) =>
        /\ si = 0
        /\ \A w \in Workers : wpc[w] = "none"
        /\ \A i \in PkgIndices : takes[i] = 0 /\ checked[i] = 0
        /\ \A f \in SourceFiles : written[f] = 0
        /\ mpc \in {"load", "fill", "returned"}
        /\ mpc # "returned" => ENABLED (ParseFlags \/ Load \/ Fill)
        /\ mpc = "returned" => ret = [res |-> <<>>, err |-> "pkg"]

C7_Witness ==
    /\ mpc = "returned"
    /\ ret.err = "pkg"
    /\ Len(pkgs) = 3
    /\ pkgs[3].Errors
    /\ work = <<1, 2>>

\* C8: every dispatched package is received from the channel and traversed
\* exactly once, by one worker: never twice, never by two workers, and once
\* the workers have finished none has been skipped.
C8_EachUnitOnce ==
    /\ \A i \in PkgIndices :
        /\ takes[i] <= 1
        /\ checked[i] <= takes[i]
        /\ Cardinality({w \in Workers : wpkg[w] = i}) <= 1
        /\ takes[i] = 1 => \A k \in 1..Len(work) : work[k] # i
        /\ (takes[i] = 0 /\ i < fi) => \E k \in 1..Len(work) : work[k] = i
    /\ (mpc # "off" /\ \A w \in Workers : wpc[w] = "done") =>
        \A i \in PkgIndices : takes[i] = 1 /\ checked[i] = 1

C8_Witness ==
    /\ \A w \in Workers : wpc[w] = "done"
    /\ Len(pkgs) = 3
    /\ \A i \in PkgIndices : takes[i] = 1 /\ checked[i] = 1

\* C9: the shared result is modified only by a worker that holds the mutex:
\* a worker is between Lock and Unlock exactly when it holds the mutex (so no
\* two workers append at once and the mutex is not held during a traversal),
\* and every step that changes the result is the append of that worker.
MutexHeldExactlyInAppend ==
    \A w \in Workers : (wpc[w] \in {"append", "unlock"}) <=> (mu = w)

C9_MutexGuardsResult ==
    [][ /\ MutexHeldExactlyInAppend
        /\ MutexHeldExactlyInAppend'
        /\ result' # result => \E w \in Workers : mu = w /\ wpc[w] = "append" /\ mu' = w
      ]_vars

C9_Witness ==
    \E w, x, y \in Workers :
        /\ wpc[w] = "unlock" /\ mu = w /\ result # <<>>
        /\ wpc[x] = "lock"
        /\ wpc[y] \in {"visit", "lock"}
        /\ w # x

\* C10: checkPaths deduplicates and returns only after every worker has
\* finished, and what it returns is Unique of the per-package results of all
\* packages (each what CheckPackage returns for the package's files), merged
\* in some order.
C10_ReturnsUniqueOfAll ==
    (mpc = "unique" \/ (mpc = "returned" /\ ret.err = "nil")) =>
        /\ \A w \in Workers : wpc[w] = "done"
        /\ mu = 0
        /\ \A i \in PkgIndices : checked[i] = 1
        /\ \A i \in PkgIndices :
            \E t \in [1..Len(pkgs[i].Syntax) -> BOOLEAN] :
                pkgres[i] = FilesErrors(pkgs[i], t, 1)
        /\ \E order \in Permutations(PkgIndices) :
            /\ result = MergeInOrder(order, 1)
            /\ mpc = "returned" =>
                ret.res \in { o.ret : o \in Unique(MergeInOrder(order, 1)) }

C10_Witness ==
    /\ mpc = "returned"
    /\ ret.err = "nil"
    /\ Len(pkgs) = 3
    /\ Len(result) = 7
    /\ Len(ret.res) = 3

\* C11: the report checkPaths returns is a function of the packages alone: whatever the
\* interleaving of the workers, the order of the appends and the number of
\* workers, it is Unique of the packages' violations merged in the order of
\* the packages, each file read as it was parsed.
RECURSIVE MergeOfPackages(_)
MergeOfPackages(k) ==
    IF k > Len(pkgs) THEN <<>>
    ELSE PkgErrors(pkgs[k], 1) \o MergeOfPackages(k + 1)

C11_ReportDeterministic ==
    (mpc = "returned" /\ ret.err = "nil") =>
        \A o \in Unique(MergeOfPackages(1)) : ret.res = o.ret

\* C12: with rewriting enabled, no two workers are writing the same source
\* file, whatever the packages (a file may belong to several of them).
FileOf(w) == pkgs[wpkg[w]].Syntax[wfile[w]]

C12_WritesDisjoint ==
    \A w, x \in Workers :
        (w # x /\ wpc[w] = "write" /\ wpc[x] = "write") => FileOf(w) # FileOf(x)

\* C13: for packages without errors checkPaths returns: filling the channel
\* is never blocked, and from the call on, eventually every worker has left
\* its loop, the barrier is passed and the deduplicated result is returned.
ErrorFree == ~loadErr /\ \A i \in PkgIndices : ~pkgs[i].Errors

C13_CheckReturns ==
    /\ [](mpc = "fill" => ENABLED Fill)
    /\ (cpc = "check" /\ ErrorFree) ~>
           (mpc = "returned" /\ ret.err = "nil" /\ \A w \in Workers : wpc[w] = "done")

C13_Witness ==
    /\ ErrorFree
    /\ Len(pkgs) > NumCPU
    /\ mpc = "returned"
    /\ ret.err = "nil"
    /\ wg = 0
    /\ \A w \in Workers : wpc[w] = "done" /\ \E i \in PkgIndices : pkgres[i] # <<>>

\* C14: mainCmd returns 0 when the check completes without violations or the
\* loader returns ErrNoGoFiles, 1 when there is at least one violation, 2
\* when the flags do not parse or on any other error of the load or the
\* check, and nothing else.
C14_ExitCodes ==
    /\ exit \in {-1, 0, 1, 2}
    /\ (cpc = "exited") <=> (exit # -1)
    /\ cpc = "exited" =>
        exit = IF flagErr THEN 2
               ELSE IF loadErr THEN (IF noGoFiles THEN 0 ELSE 2)
               ELSE IF \E i \in PkgIndices : pkgs[i].Errors THEN 2
               ELSE IF \E i \in PkgIndices : pkgres[i] # <<>> THEN 1
               ELSE 0

C14_Witness ==
    /\ cpc = "exited"
    /\ loadErr
    /\ noGoFiles
    /\ exit = 0
    /\ ret.err = "ErrNoGoFiles"

(***************************************************************************)
(* Properties of the visitor (SpecVisit).                                  *)
(***************************************************************************)
RECURSIVE Paths(_)
Paths(n) ==
    {<<>>} \cup UNION { { <<k>> \o p : p \in Paths(Kids(n)[k]) } : k \in 1..Len(Kids(n)) }

RECURSIVE NodeAt(_, _)
NodeAt(n, p) == IF p = <<>> THEN n ELSE NodeAt(Kids(n)[Head(p)], Tail(p))

RECURSIVE ColumnAt(_, _, _)
ColumnAt(n, col, p) ==
    IF p = <<>> THEN col
    ELSE ColumnAt(Kids(n)[Head(p)], KidColumn(n, col, Head(p)), Tail(p))

\* the selectors of the statement, the parent and the column of each, and how
\* many of the returned records are at that column
Selectors == { p \in Paths(stmt) : NodeAt(stmt, p).kind = "SelectorExpr" }
ParentNode(p) == NodeAt(stmt, SubSeq(p, 1, Len(p) - 1))
ColumnOf(p) == SelColumn(NodeAt(stmt, p), ColumnAt(stmt, 1, p))
Reports(p) == Cardinality({ i \in 1..Len(terrors) : terrors[i].Pos.Column = ColumnOf(p) })
IndexOf(p) == CHOOSE i \in 1..Len(terrors) : terrors[i].Pos.Column = ColumnOf(p)

\* a data field declared in generated source whose receiver type declares Get<Field>
Qualifies(p) ==
    LET n == NodeAt(stmt, p)
    IN  /\ n.Sel.obj = "Var"
        /\ n.Sel.decl = PbGo
        /\ (<<"Get">> \o n.Sel.Name) \in MethodsOf(StructOf(TypeOf(n.X)))

\* the selector is an element of an assignment's left-hand side
IsTarget(p) ==
    /\ ParentNode(p).kind = "AssignStmt"
    /\ p[Len(p)] <= Len(ParentNode(p).Lhs)

\* the selector is the operand of &
IsAddressed(p) ==
    /\ ParentNode(p).kind = "UnaryExpr"
    /\ ParentNode(p).Op = "&"

Primitives ==
    { "string", "bool", "int", "int8", "int16", "int32", "int64", "uint", "uint8",
      "uint16", "uint32", "uint64", "float32", "float64" }

\* the selector is the left operand of == nil and its type a pointer to a primitive
IsComparedWithNil(p) ==
    LET t == NodeAt(stmt, p).Sel.typ
    IN  /\ ParentNode(p).kind = "BinaryExpr"
        /\ ParentNode(p).Op = "=="
        /\ p[Len(p)] = 1
        /\ ParentNode(p).Y = Nil
        /\ Len(t) = 2 /\ t[1] = "*" /\ t[2] \in Primitives

\* q is a selector of the receiver of the selector p
InReceiverOf(q, p) ==
    /\ Len(q) > Len(p)
    /\ SubSeq(q, 1, Len(p)) = p

\* q is a level of the chain of field accesses that ends with p
InChainOf(q, p) ==
    /\ InReceiverOf(q, p)
    /\ \A k \in Len(p)..Len(q) :
        NodeAt(stmt, SubSeq(q, 1, k)).kind \in {"SelectorExpr", "CallExpr"}

\* sample expressions
BasicName == Var("Name", <<"string">>, PbGo)
ParentChild == Var("Child", <<"*", "Basic">>, PbGo)
GrandParentChild == Var("Child", <<"*", "Parent">>, PbGo)
ParentGetChild == Func("GetChild", <<"*", "Basic">>, PbGo)
cName == SelectorExpr(Ident(<<"Basic">>), BasicName)
mName == SelectorExpr(Ident(<<"*", "Manual">>), Var("Name", <<"string">>, ManualGo))
pChild == SelectorExpr(Ident(<<"*", "Parent">>), ParentChild)
pChildName == SelectorExpr(pChild, BasicName)
pChildSize == SelectorExpr(pChild, Var("Size", <<"int32">>, PbGo))
gChildChildName ==
    SelectorExpr(SelectorExpr(SelectorExpr(Ident(<<"GrandParent">>), GrandParentChild),
                              ParentChild), BasicName)
pGetChildName ==
    SelectorExpr(CallExpr(SelectorExpr(Ident(<<"*", "Parent">>), ParentGetChild)), BasicName)
GetChildCall == <<"Get", "Child", "()">>
GetNameCall == <<"Get", "Name", "()">>

\* C15: a selector that is an assignment target is never reported, whatever
\* the number of targets, and when the traversal returns, every qualifying
\* selector of its receiver is reported once: a.Child.Name = v gives one
\* record, for Child.
C15_TargetsNotReported ==
    tpc # "check" =>
        /\ \A p \in Selectors : IsTarget(p) =>
            /\ Reports(p) = 0
            /\ tpc = "returned" =>
                \A q \in Selectors : (InReceiverOf(q, p) /\ Qualifies(q)) => Reports(q) = 1
        /\ stmt = AssignStmt(<<pChildName>>, <<Ident(<<"string">>)>>) =>
            /\ tpc = "returned"
            /\ Len(terrors) = 1
            /\ terrors[1].FuncName = GetChildCall

C15_Witness ==
    /\ tpc = "returned"
    /\ stmt.kind = "AssignStmt"
    /\ stmt.Lhs = <<pChildName, cName>>
    /\ Len(terrors) = 1
    /\ terrors[1].FuncName = GetChildCall

\* C16: a selector that is the operand of & is never reported, and when the
\* traversal returns, every qualifying selector of its receiver is reported
\* once; _ = &p.GetChild().Name gives no record.
C16_AddressOperandNotReported ==
    tpc # "check" =>
        /\ \A p \in Selectors : IsAddressed(p) =>
            /\ Reports(p) = 0
            /\ tpc = "returned" =>
                \A q \in Selectors : (InReceiverOf(q, p) /\ Qualifies(q)) => Reports(q) = 1
        /\ stmt = AssignStmt(<<Blank>>, <<UnaryExpr("&", pGetChildName)>>) =>
            /\ tpc = "returned"
            /\ terrors = <<>>

C16_Witness ==
    /\ tpc = "returned"
    /\ stmt = AssignStmt(<<Blank>>, <<UnaryExpr("&", pChildName)>>)
    /\ Len(terrors) = 1
    /\ terrors[1].FuncName = GetChildCall

ExemptPointerTypes ==
    { <<"*", b>> : b \in { "string", "int", "bool", "int32", "int64", "float32", "float64",
                          "uint32", "uint64" } }

IsComparedWithNilExempt(p) ==
    /\ ParentNode(p).kind = "BinaryExpr"
    /\ ParentNode(p).Op = "=="
    /\ p[Len(p)] = 1
    /\ ParentNode(p).Y = Nil
    /\ NodeAt(stmt, p).Sel.typ \in ExemptPointerTypes

C18_OnlyGeneratedFieldsWithGetter ==
    \A i \in 1..Len(terrors) :
        \E p \in Selectors :
            /\ ColumnOf(p) = terrors[i].Pos.Column
            /\ Qualifies(p)
            /\ terrors[i].FuncName = <<"Get">> \o NodeAt(stmt, p).Sel.Name \o <<"()">>

C18_Witness ==
    /\ tpc = "returned"
    /\ stmt = AssignStmt(<<Blank, Blank>>, <<mName, cName>>)
    /\ Len(terrors) = 1
    /\ terrors[1].Pos.Column = 6

\* C19: once the unit is checked, every qualifying selector that is neither
\* an assignment target, nor the operand of &, nor compared with nil has
\* exactly one record in the unit's result.
C19_OneRecordPerOccurrence ==
    tpc \in {"returned", "panicked"} =>
        \A p \in Selectors :
            (Qualifies(p) /\ ~IsTarget(p) /\ ~IsAddressed(p) /\ ~IsComparedWithNil(p)) =>
                Reports(p) = 1

IsReceiverOf(q, p) == q = Append(p, 1) /\ q \in Selectors

RECURSIVE Unparen(_)
Unparen(n) ==
    CASE n.kind = "ParenExpr" ->
            IF Unparen(n.X).kind = "SelectorExpr" THEN Unparen(n.X)
            ELSE ParenExpr(Unparen(n.X))
      [] n.kind = "SelectorExpr" -> SelectorExpr(Unparen(n.X), n.Sel)
      [] n.kind = "CallExpr" -> CallExpr(Unparen(n.Fun))
      [] n.kind = "UnaryExpr" -> UnaryExpr(n.Op, Unparen(n.X))
      [] n.kind = "BinaryExpr" -> BinaryExpr(Unparen(n.X), n.Op, Unparen(n.Y))
      [] n.kind = "KeyValueExpr" -> KeyValueExpr(n.Key, Unparen(n.Value))
      [] n.kind = "CompositeLit" ->
            CompositeLit(n.Type, [i \in 1..Len(n.Elts) |-> Unparen(n.Elts[i])])
      [] n.kind = "AssignStmt" ->
            AssignStmt([i \in 1..Len(n.Lhs) |-> Unparen(n.Lhs[i])],
                       [i \in 1..Len(n.Rhs) |-> Unparen(n.Rhs[i])])
      [] n.kind = "IfStmt" -> IfStmt(Unparen(n.Cond))
      [] OTHER -> n

\* the records of the traversal of the statement s
ErrorsOf(s) ==
    LET st == Apply(s, <<>>, 1, "v", [errors |-> <<>>, names |-> <<>>, panicked |-> FALSE])
    IN  IF st.panicked THEN {"panic"} ELSE { st.errors[i] : i \in 1..Len(st.errors) }

\* C22: parentheses around a field access are transparent: the traversal of
\* a statement returns the records of the statement without them, also
\* when the parenthesised access is the operand of a unary operator.
C22_ParenthesesTransparent ==
    tpc \in {"returned", "panicked"} =>
        /\ tpc = "returned"
        /\ { terrors[i] : i \in 1..Len(terrors) } = ErrorsOf(Unparen(stmt))

\* the nodes above the node at p, the statement first
Above(p) == [k \in 1..Len(p) |-> NodeAt(stmt, SubSeq(p, 1, k - 1))]

\* p is a field access in the value of a key: value pair: below literals,
\* address operators and pairs only, in the chain the value is or addresses
InValue(p) ==
    \E k \in 2..Len(p) :
        /\ Above(p)[k].kind = "KeyValueExpr" /\ p[k] = 2
        /\ \A j \in 2..k :
            \/ Above(p)[j].kind \in {"CompositeLit", "KeyValueExpr"}
            \/ Above(p)[j].kind = "UnaryExpr" /\ Above(p)[j].Op = "&"
        /\ \A j \in k + 1..Len(p) : Above(p)[j].kind \in {"SelectorExpr", "CallExpr"}

\* the keys of the pairs of the statement
Keys == { p \in Paths(stmt) : Len(p) > 0 /\ ParentNode(p).kind = "KeyValueExpr" /\ p[Len(p)] = 1 }

bName == SelectorExpr(Ident(<<"Basic">>), BasicName)

\* C23: a qualifying field read in the value of a key: value pair is
\* reported exactly once, however deep in composite literals and address
\* operators, and no key is reported: &Parent{Child: &Basic{Name: b.Name}}
\* gives the one record of b.Name.
C23_ValueReportedOnce ==
    tpc \in {"returned", "panicked"} =>
        /\ \A p \in Selectors :
            (InValue(p) /\ Qualifies(p)) => (tpc = "returned" /\ Reports(p) = 1)
        /\ \A k \in Keys : \A i \in 1..Len(terrors) : terrors[i].Pos.Column # ColumnAt(stmt, 1, k)
        /\ stmt = AssignStmt(<<Blank>>,
                             <<UnaryExpr("&", CompositeLit("Parent",
                                 <<KeyValueExpr(Ident(<<"*", "Basic">>),
                                     UnaryExpr("&", CompositeLit("Basic",
                                         <<KeyValueExpr(Ident(<<"string">>), bName)>>)))>>))>>) =>
            /\ Len(terrors) = 1
            /\ terrors[1].FuncName = GetNameCall
            /\ terrors[1].Pos.Column = 7

C23_Witness ==
    /\ tpc = "returned"
    /\ stmt = AssignStmt(<<Blank>>,
                         <<UnaryExpr("&", CompositeLit("Parent",
                             <<KeyValueExpr(Ident(<<"*", "Basic">>),
                                 UnaryExpr("&", CompositeLit("Basic",
                                     <<KeyValueExpr(Ident(<<"string">>), bName)>>)))>>))>>)
    /\ Len(terrors) = 1

\* the selectors whose Sel the type checker did not resolve
UnresolvedSelectors == { p \in Selectors : NodeAt(stmt, p).Sel.obj = "nil" }

\* C24: the traversal never aborts: an expression whose type or symbol is
\* not resolved is not flagged, and the traversal of the unit returns.
C24_TraversalNeverAborts ==
    tpc \in {"returned", "panicked"} =>
        /\ tpc = "returned"
        /\ \A p \in UnresolvedSelectors : Reports(p) = 0

\* the distinct records of a sequence of records
RecordSet(s) == { s[i] : i \in 1..Len(s) }

\* C29: Unique neither loses nor invents records: the distinct records of
\* what it returns are the distinct records of its receiver.
C29_UniqueKeepsRecordSet ==
    /\ upc \in {"unique1", "unique2"} => RecordSet(uniq1) = RecordSet(recv0)
    /\ upc = "unique2" => RecordSet(uniq2) = RecordSet(uniq1)

C29_Witness ==
    /\ upc = "unique1"
    /\ Len(uniq1) < Len(recv0)
    /\ Cardinality(RecordSet(uniq1)) >= 2
    /\ \E i, j \in 1..Len(uniq1) :
        /\ i # j
        /\ uniq1[i].Pos = uniq1[j].Pos /\ uniq1[i].Line = uniq1[j].Line

\* the receiver type's struct and the accessor name Visit asks FindMethod for
ReceiverOf(p) == StructOf(TypeOf(NodeAt(stmt, p).X))
GetterOf(p) == <<"Get">> \o NodeAt(stmt, p).Sel.Name

\* C25: FindMethod returns a method only if the named type below the
\* pointers declares it under the name Get<Field> and it takes no
\* arguments, and none otherwise; so no record names an accessor that
\* takes arguments.
C25_FindsOnlyAccessorsWithoutArguments ==
    tpc = "returned" =>
        \A p \in Selectors :
            /\ FindMethod(TypeOf(NodeAt(stmt, p).X), GetterOf(p)) <=>
                    /\ GetterOf(p) \in MethodsOf(ReceiverOf(p))
                    /\ ParamsOf(ReceiverOf(p), GetterOf(p)) = 0
            /\ Reports(p) > 0 => ParamsOf(ReceiverOf(p), GetterOf(p)) = 0

\* C28 as stated: with exclude-generated on, a file is skipped exactly when
\* its first comment matches the pattern of generated code; with it off, no
\* file is skipped.
C28_SkippedIffFirstCommentMatches ==
    tpc # "check" =>
        (tpc = "skipped" <=>
            (generated /\ comments # <<>> /\ GeneratedCodeRegexpMatch(comments[1])))

\* C28: with exclude-generated on, a file is skipped (not traversed, no
\* record, no selector renamed) exactly when one of its comments, wherever
\* in the file, is a line comment of //, white space, "Code generated",
\* any text and a final "DO NOT EDIT."; with it off, no file is skipped.
IsGeneratedMarker(text) ==
    /\ Len(text) >= 4
    /\ text[1] = "//"
    /\ text[2] \in Space
    /\ \E k \in 3..Len(text) - 1 :
        /\ text[k] = "Code generated"
        /\ \A j \in 3..k - 1 : text[j] \in Space
    /\ text[Len(text)] = "DO NOT EDIT."

C28_SkippedIffSomeCommentMatches ==
    tpc # "check" =>
        /\ tpc = "skipped" <=>
            (generated /\ \E i \in 1..Len(comments) : IsGeneratedMarker(comments[i]))
        /\ tpc = "skipped" => (terrors = <<>> /\ names = <<>>)
        /\ (tpc = "returned" /\ stmt \in Commented /\ stmt.Rhs[1].kind = "SelectorExpr") =>
            Len(terrors) = 1

C28_Witness ==
    /\ tpc = "skipped"
    /\ Len(comments) = 2
    /\ ~IsGeneratedMarker(comments[1])
    /\ IsGeneratedMarker(comments[2])
    /\ stmt.Rhs[1].kind = "SelectorExpr"

\* C26: with rewriting off the check only reads the unit: after it, every
\* identifier of the syntax tree has the name it was parsed with, whether
\* or not violations were found.
C26_TreeUnchangedWithoutRewriting ==
    (tpc # "check" /\ ~write) =>
        \A p \in Selectors : NameAt([names |-> names], p, NodeAt(stmt, p)) = NodeAt(stmt, p).Sel.Name

\* the source line the records of the statement are to hold
SourceLine == IF line \in 1..Len(disk) THEN TrimSpace(disk[line]) ELSE <<"??">>

\* C27: recording a violation never fails on the lookup of the source line:
\* the traversal of a well-typed unit returns, and every record holds the
\* trimmed text of its line, or "??" when the file on disk has no such line.
C27_LineLookupNeverFails ==
    (tpc \in {"returned", "panicked"} /\ stmt \notin Unresolved) =>
        /\ tpc = "returned"
        /\ \A i \in 1..Len(terrors) : terrors[i].Line = SourceLine

\* the traversal of the file written by a check with WriteGetters
Rewritten == Reparse(stmt, <<>>, names)
Recheck ==
    Apply(Rewritten, <<>>, 1, "v", [errors |-> <<>>, names |-> <<>>, panicked |-> FALSE])

\* C30: rewriting reaches a fixpoint of the check: when every flagged field
\* access of a statement has been replaced by the call of its accessor,
\* the traversal of the rewritten statement returns and records nothing.
C30_RewrittenUnitHasNoViolations ==
    tpc = "returned" => (~Recheck.panicked /\ Recheck.errors = <<>>)

\* a statement with an exempt access and a flagged one has been rewritten
C30_Witness ==
    /\ tpc = "returned"
    /\ Len(terrors) >= 1
    /\ \E p \in Selectors : Qualifies(p) /\ Reports(p) = 0
    /\ Rewritten # stmt
    /\ Recheck.errors = <<>>

====
